---- MODULE Spec2Model ----
(***************************************************************************)
(* The MinIO storage gateway of cmd/server/main.go and                     *)
(* internal/storage/minio.go as a state machine: the bucket and its        *)
(* objects, the temporary upload files, the startup of main() and the      *)
(* HTTP handlers, each handler one request slot that steps through its     *)
(* backend calls.                                                          *)
(***************************************************************************)
EXTENDS Integers, Sequences, FiniteSets, TLC

\* ------------------------------------------------------------------ bounds
\* Request slots: how many requests are in flight or answered at once.
MaxReq == 2
\* The clock of time.Now().Unix() runs from 1 to MaxTime.
MaxTime == 2

Req == 1..MaxReq
Times == 1..MaxTime

\* ------------------------------------------------------------------ inputs
\* Original file names of the multipart part (handler.Filename).
Filenames == {"a.txt"}
\* Bodies of the multipart part: byte sequences of different lengths.
Payloads == {<<7>>, <<8, 9>>}
\* HTTP methods a request can carry.
Methods == {"GET", "POST"}

\* ------------------------------------------------------- program constants
StatusOK == 200
StatusFound == 302
StatusBadRequest == 400
StatusNotFound == 404
StatusMethodNotAllowed == 405
StatusInternalServerError == 500
StatusServiceUnavailable == 503
\* time.Hour and time.Hour*24 in seconds.
Hour == 3600
Day == 86400
\* MINIO_LOCATION default.
Location == "us-east-1"

\* ------------------------------------------------------------- object keys
\* A key is a sequence of string tokens; a token ending in "/" is a
\* directory token (it ends with the delimiter of the object store).
DirTokens == {"uploads/"}
DefaultPrefix == <<"uploads/">>

Digits == <<"0", "1", "2", "3", "4", "5", "6", "7", "8", "9">>

\* %d of fmt.Sprintf: the decimal digits of n, most significant first.
RECURSIVE Itoa(_)
Itoa(n) ==
    IF n < 10 THEN <<Digits[n + 1]>>
    ELSE Itoa(n \div 10) \o <<Digits[(n % 10) + 1]>>

\* fmt.Sprintf("uploads/%d-%s", time.Now().Unix(), handler.Filename)
ObjectName(now, filename) ==
    <<"uploads/">> \o Itoa(now) \o <<"-", filename>>

\* The keys uploads can write.
Keys == {ObjectName(t, f) : t \in Times, f \in Filenames}

IsPrefix(p, k) == Len(p) <= Len(k) /\ SubSeq(k, 1, Len(p)) = p
PrefixesOf(k) == {SubSeq(k, 1, n) : n \in 0..Len(k)}
Prefixes == UNION {PrefixesOf(k) : k \in Keys}

\* Index of the last directory token of k, 0 when it has none.
LastDir(k) ==
    LET dirs == {i \in 1..Len(k) : k[i] \in DirTokens}
    IN  IF dirs = {} THEN 0 ELSE CHOOSE i \in dirs : \A j \in dirs : j <= i

\* filepath.Base on a key: what follows its last "/" ("." for the empty key).
Base(k) ==
    IF Len(k) = 0 THEN <<".">>
    ELSE IF LastDir(k) = Len(k) THEN <<k[Len(k)]>>
    ELSE SubSeq(k, LastDir(k) + 1, Len(k))

\* ------------------------------------------------------------ object store
\* The S3-compatible backend behind minio.Client, by the contract the gateway
\* calls it under. objs maps each stored key to its object; ok says whether
\* the call reaches the backend and is served (FALSE: a transport, auth or
\* server error).
NoBucket == "none"
NoURL == [key |-> <<>>, expiry |-> 0]

\* A fixed enumeration of a finite set (the backend chooses the order).
RECURSIVE SetToSeq(_)
SetToSeq(S) ==
    IF S = {} THEN <<>>
    ELSE LET x == CHOOSE y \in S : TRUE IN <<x>> \o SetToSeq(S \ {x})

BucketExists(bkt, ok) ==
    IF ok THEN [exists |-> bkt # NoBucket, err |-> "nil"]
    ELSE [exists |-> FALSE, err |-> "transport"]

MakeBucket(bkt, region, ok) ==
    IF ~ok THEN [bucket |-> bkt, err |-> "transport"]
    ELSE IF bkt # NoBucket THEN [bucket |-> bkt, err |-> "BucketAlreadyOwnedByYou"]
    ELSE [bucket |-> region, err |-> "nil"]

\* A plausible slip: a key that already holds an object keeps it.
PutObjectKeepsExisting(objs, key, stream, size, ok) ==
    IF ~ok THEN [objects |-> objs, size |-> 0, err |-> "transport"]
    ELSE IF size # Len(stream) THEN [objects |-> objs, size |-> 0, err |-> "IncompleteBody"]
    ELSE [objects |-> [k \in DOMAIN objs \cup {key} |->
                          IF k \in DOMAIN objs THEN objs[k] ELSE [data |-> stream]],
          size |-> Len(stream), err |-> "nil"]

\* Stores the stream under key, replacing what was there; the declared size
\* must be the length of the stream.
PutObject(objs, key, stream, size, ok) ==
    IF ~ok THEN [objects |-> objs, size |-> 0, err |-> "transport"]
    ELSE IF size # Len(stream) THEN [objects |-> objs, size |-> 0, err |-> "IncompleteBody"]
    ELSE [objects |-> [k \in DOMAIN objs \cup {key} |->
                          IF k = key THEN [data |-> stream] ELSE objs[k]],
          size |-> Len(stream), err |-> "nil"]

\* GetObject followed by reading the stream to its end.
GetObject(objs, key, ok) ==
    IF ~ok THEN [data |-> <<>>, err |-> "transport"]
    ELSE IF key \notin DOMAIN objs THEN [data |-> <<>>, err |-> "NoSuchKey"]
    ELSE [data |-> objs[key].data, err |-> "nil"]

StatObject(objs, key, ok) ==
    IF ~ok THEN "transport"
    ELSE IF key \notin DOMAIN objs THEN "NoSuchKey"
    ELSE "nil"

\* Removing a key that is not stored is no error.
RemoveObject(objs, key, ok) ==
    IF ~ok THEN [objects |-> objs, err |-> "transport"]
    ELSE [objects |-> [k \in DOMAIN objs \ {key} |-> objs[k]], err |-> "nil"]

PresignedGetObject(key, expiry, ok) ==
    IF ok /\ expiry > 0 THEN [url |-> [key |-> key, expiry |-> expiry], err |-> "nil"]
    ELSE [url |-> NoURL, err |-> "transport"]

\* What one key contributes to a listing under prefix: the object itself, or,
\* in a non-recursive listing, the common prefix up to the next delimiter.
ListEntry(objs, prefix, recursive, k) ==
    LET dirs == {i \in (Len(prefix) + 1)..Len(k) : k[i] \in DirTokens}
    IN  IF recursive \/ dirs = {}
        THEN [Key |-> k, Size |-> Len(objs[k].data), Err |-> "nil"]
        ELSE [Key |-> SubSeq(k, 1, CHOOSE i \in dirs : \A j \in dirs : i <= j),
              Size |-> 0, Err |-> "nil"]

\* The channel of ListObjects: one item per entry, or, when the listing
\* fails, the first entry (if any) followed by an item carrying the error.
ListObjectsCh(objs, prefix, recursive, ok) ==
    LET entries == {ListEntry(objs, prefix, recursive, k) :
                        k \in {q \in DOMAIN objs : IsPrefix(prefix, q)}}
        items == SetToSeq(entries)
    IN  IF ok THEN items
        ELSE SubSeq(items, 1, IF Len(items) > 0 THEN 1 ELSE 0)
                 \o <<[Key |-> <<>>, Size |-> 0, Err |-> "transport"]>>

\* ----------------------------------------------------------- the gateway
\* The methods of MinIOService. Each takes the backend state it reads and the
\* outcome (ok) of each backend call it makes, and returns what the method
\* returns together with the backend state it leaves and the calls it made.

\* A backend call as a handler or method made it: the operation, the expiry
\* it asked for (signing) and the region it asked for (bucket creation).
Call(op, expiry) == [op |-> op, expiry |-> expiry, region |-> ""]
CallMake(region) == [op |-> "MakeBucket", expiry |-> 0, region |-> region]

\* A plausible slip: creation is attempted whether or not the bucket exists.
ensureBucketAlwaysMakes(bkt, okExists, okMake) ==
    LET ex == BucketExists(bkt, okExists)
        mk == MakeBucket(bkt, Location, okMake)
    IN  IF ex.err # "nil"
        THEN [bucket |-> bkt, err |-> "failed to check if bucket exists",
              calls |-> {Call("BucketExists", 0)}]
        ELSE [bucket |-> mk.bucket,
              err |-> IF mk.err # "nil" THEN "failed to create bucket" ELSE "nil",
              calls |-> {Call("BucketExists", 0), CallMake(Location)}]

ensureBucket(bkt, okExists, okMake) ==
    LET ex == BucketExists(bkt, okExists)
        mk == MakeBucket(bkt, Location, okMake)
    IN  IF ex.err # "nil"
        THEN [bucket |-> bkt, err |-> "failed to check if bucket exists",
              calls |-> {Call("BucketExists", 0)}]
        ELSE IF ~ex.exists
        THEN [bucket |-> mk.bucket,
              err |-> IF mk.err # "nil" THEN "failed to create bucket" ELSE "nil",
              calls |-> {Call("BucketExists", 0), CallMake(Location)}]
        ELSE [bucket |-> bkt, err |-> "nil", calls |-> {Call("BucketExists", 0)}]

\* A plausible slip: the stream handed to the backend is cut after its first
\* byte.
uploadFileKeepsFirstByte(objs, fs, objectName, filePath, ok) ==
    IF filePath \notin DOMAIN fs
    THEN [objects |-> objs, size |-> 0, err |-> "failed to open file"]
    ELSE LET put == PutObject(objs, objectName, SubSeq(fs[filePath], 1, 1), 1, ok)
         IN  IF put.err # "nil"
             THEN [objects |-> objs, size |-> 0, err |-> "failed to upload file"]
             ELSE [objects |-> put.objects, size |-> put.size, err |-> "nil"]

\* os.Open(filePath), file.Stat(), PutObject with the size Stat reports.
uploadFile(objs, fs, objectName, filePath, ok) ==
    IF filePath \notin DOMAIN fs
    THEN [objects |-> objs, size |-> 0, err |-> "failed to open file"]
    ELSE LET put == PutObject(objs, objectName, fs[filePath], Len(fs[filePath]), ok)
         IN  IF put.err # "nil"
             THEN [objects |-> objs, size |-> 0, err |-> "failed to upload file"]
             ELSE [objects |-> put.objects, size |-> put.size, err |-> "nil"]

downloadBuffer(objs, objectName, ok) ==
    LET got == GetObject(objs, objectName, ok)
    IN  IF got.err # "nil"
        THEN [data |-> <<>>, err |-> "failed to read object data"]
        ELSE [data |-> got.data, err |-> "nil"]

\* The loop over the channel: stop with the error of the first failed item,
\* else append the item.
RECURSIVE listLoop(_, _, _)
listLoop(ch, i, objects) ==
    IF i > Len(ch) THEN [objects |-> objects, err |-> "nil"]
    ELSE IF ch[i].Err # "nil" THEN [objects |-> <<>>, err |-> "error listing objects"]
    ELSE listLoop(ch, i + 1, Append(objects, ch[i]))

\* A plausible slip: Recursive is left at its zero value.
listObjectsNotRecursive(objs, prefix, ok) ==
    listLoop(ListObjectsCh(objs, prefix, FALSE, ok), 1, <<>>)

listObjects(objs, prefix, ok) ==
    listLoop(ListObjectsCh(objs, prefix, TRUE, ok), 1, <<>>)

\* A plausible slip: the object is removed only when it is the last one stored.
deleteObjectOnlyLast(objs, objectName, ok) ==
    LET rm == RemoveObject(objs, objectName, ok)
    IN  IF rm.err # "nil"
        THEN [objects |-> objs, err |-> "failed to delete object"]
        ELSE [objects |-> IF DOMAIN objs = {objectName} THEN rm.objects ELSE objs,
              err |-> "nil"]

deleteObject(objs, objectName, ok) ==
    LET rm == RemoveObject(objs, objectName, ok)
    IN  IF rm.err # "nil"
        THEN [objects |-> objs, err |-> "failed to delete object"]
        ELSE [objects |-> rm.objects, err |-> "nil"]

getObjectURL(objectName, expiry, ok) ==
    LET signed == PresignedGetObject(objectName, expiry, ok)
    IN  IF signed.err # "nil"
        THEN [url |-> NoURL, err |-> "failed to generate presigned URL"]
        ELSE [url |-> signed.url, err |-> "nil"]

\* A plausible slip: every failed probe is taken for "not found".
checkObjectExistsAnyError(objs, objectName, ok) ==
    LET code == StatObject(objs, objectName, ok)
    IN  IF code # "nil" THEN [exists |-> FALSE, err |-> "nil"]
        ELSE [exists |-> TRUE, err |-> "nil"]

checkObjectExists(objs, objectName, ok) ==
    LET code == StatObject(objs, objectName, ok)
    IN  IF code # "nil"
        THEN IF code = "NoSuchKey" THEN [exists |-> FALSE, err |-> "nil"]
             ELSE [exists |-> FALSE, err |-> "failed to check if object exists"]
        ELSE [exists |-> TRUE, err |-> "nil"]

\* ------------------------------------------------------------- responses
NoFile == [fileName |-> "", size |-> 0, url |-> NoURL]

\* What a request has been answered with. status, contentType and body are
\* what went on the wire; success, message, file and files are the Response
\* value the handler built; bytes, contentLength and location belong to the
\* raw and the redirect answers of getFileHandler.
NoResp ==
    [status |-> 0, contentType |-> "", body |-> "none", success |-> FALSE,
     message |-> <<>>, file |-> NoFile, files |-> <<>>, bytes |-> <<>>,
     contentLength |-> -1, location |-> NoURL]

\* The header is written with statusCode before the envelope is encoded; when
\* the encoding fails, http.Error runs on a response whose header is out:
\* its status and content type are not applied, its text is appended.
sendResponse(success, message, file, files, statusCode, encOk) ==
    [NoResp EXCEPT
        !.status = statusCode,
        !.contentType = "application/json",
        !.body = IF encOk THEN "envelope" ELSE "Error encoding response",
        !.success = success, !.message = message, !.file = file, !.files = files]

\* The attachment answer of getFileHandler.
sendBytes(objectName, data) ==
    [NoResp EXCEPT
        !.status = StatusOK,
        !.contentType = "application/octet-stream",
        !.body = "bytes", !.bytes = data, !.contentLength = Len(data)]

\* http.Redirect(w, r, url, http.StatusFound)
sendRedirect(url) ==
    [NoResp EXCEPT
        !.status = StatusFound, !.contentType = "text/html",
        !.body = "redirect", !.location = url]

\* ------------------------------------------------------- temporary files
TempNames == 1..MaxReq

\* A plausible slip: one fixed path for every upload.
CreateTempFixedName(fs) == 1

\* os.CreateTemp: a name no existing file has.
CreateTemp(fs) == CHOOSE n \in TempNames : n \notin DOMAIN fs

\* A plausible slip: the deferred removal is missing.
osRemoveNothing(fs, name) == fs

\* os.Remove(name)
osRemove(fs, name) == [n \in DOMAIN fs \ {name} |-> fs[n]]

\* io.Copy into the open temporary file (a write to a file that was unlinked
\* meanwhile is not seen under its name).
ioCopy(fs, name, data) ==
    IF name \in DOMAIN fs THEN [fs EXCEPT ![name] = data] ELSE fs

\* -------------------------------------------------------------------- state
VARIABLES
    phase,      \* main(): "boot", "serving" (ListenAndServe), "fatal" (log.Fatalf)
    bucket,     \* the region of the configured bucket, NoBucket when it is absent
    objects,    \* the objects of the bucket: key -> [data]
    tmpfs,      \* the temporary directory: name -> bytes
    now,        \* time.Now().Unix()
    req,        \* the request slots: the locals of each handler in flight
    out         \* what the step just taken returned to its caller: the locals
                \* and the answer of the handler that returned, or the result
                \* of a service method; Idle when the step returned nothing

vars == <<phase, bucket, objects, tmpfs, now, req, out>>

Idle ==
    [kind |-> "none", pc |-> "idle", filename |-> "", body |-> <<>>, tmp |-> 0,
     key |-> <<>>, download |-> FALSE, size |-> 0, calls |-> {}, err |-> "nil",
     resp |-> NoResp]

\* The bucket may or may not exist before the process starts.
Init ==
    /\ phase = "boot"
    /\ bucket \in {NoBucket, Location}
    /\ objects = <<>>
    /\ tmpfs = <<>>
    /\ now = 1
    /\ req = [r \in Req |-> Idle]
    /\ out = Idle

\* A new request is given the lowest free slot.
Free(r) ==
    /\ phase = "serving"
    /\ req[r].pc = "idle"
    /\ \A q \in Req : q < r => req[q].pc # "idle"

\* The handler of slot r, its locals being me, returns having answered resp.
Return(r, me, resp) ==
    /\ req' = [req EXCEPT ![r] = Idle]
    /\ out' = [me EXCEPT !.pc = "done", !.resp = resp]

\* The handler of slot r goes on with locals me.
Goto(r, me) ==
    /\ req' = [req EXCEPT ![r] = me]
    /\ out' = Idle

\* ------------------------------------------------------------------ main()
\* newMinIOService: ensureBucket, then either the handlers are served or
\* log.Fatalf ends the process.
Main(okExists, okMake) ==
    /\ phase = "boot"
    /\ LET e == ensureBucket(bucket, okExists, okMake)
       IN  /\ bucket' = e.bucket
           /\ phase' = IF e.err # "nil" THEN "fatal" ELSE "serving"
           /\ out' = [Idle EXCEPT !.kind = "ensureBucket", !.pc = "done",
                                  !.err = e.err, !.calls = e.calls]
    /\ UNCHANGED <<objects, tmpfs, now, req>>

\* EnsureBucket called again on the constructed service.
EnsureBucketAgain(okExists, okMake) ==
    /\ phase = "serving"
    /\ LET e == ensureBucket(bucket, okExists, okMake)
       IN  /\ bucket' = e.bucket
           /\ out' = [Idle EXCEPT !.kind = "ensureBucket", !.pc = "done",
                                  !.err = e.err, !.calls = e.calls]
    /\ UNCHANGED <<phase, objects, tmpfs, now, req>>

\* DeleteObject called on the constructed service.
Delete(objectName, ok) ==
    /\ phase = "serving"
    /\ LET d == deleteObject(objects, objectName, ok)
       IN  /\ objects' = d.objects
           /\ out' = [Idle EXCEPT !.kind = "deleteObject", !.pc = "done",
                                  !.key = objectName, !.err = d.err,
                                  !.calls = {Call("RemoveObject", 0)}]
    /\ UNCHANGED <<phase, bucket, tmpfs, now, req>>

\* time passes
Tick ==
    /\ now < MaxTime
    /\ now' = now + 1
    /\ out' = Idle
    /\ UNCHANGED <<phase, bucket, objects, tmpfs, req>>

\* ------------------------------------------------- the handlers' method checks
\* uploadHandler serves POST only, listFilesHandler and getFileHandler GET only.
AllowedMethod(kind) == IF kind = "upload" THEN "POST" ELSE "GET"

MethodNotAllowed(r, kind, method, encOk) ==
    /\ Free(r)
    /\ method # AllowedMethod(kind)
    /\ Return(r, [Idle EXCEPT !.kind = kind],
              sendResponse(FALSE, <<"Method not allowed">>, NoFile, <<>>,
                           StatusMethodNotAllowed, encOk))
    /\ UNCHANGED <<phase, bucket, objects, tmpfs, now>>

\* ---------------------------------------------------------- uploadHandler
\* A POST: FormFile("file"), os.CreateTemp.
UploadStart(r, hasFile, okTemp, encOk) ==
    /\ Free(r)
    /\ LET me == [Idle EXCEPT !.kind = "upload"]
           name == CreateTemp(tmpfs)
       IN  IF ~hasFile
           THEN /\ Return(r, me, sendResponse(FALSE,
                                   <<"Error retrieving file: ", "no such file">>,
                                   NoFile, <<>>, StatusBadRequest, encOk))
                /\ tmpfs' = tmpfs
           ELSE IF ~okTemp
           THEN /\ Return(r, me,
                          sendResponse(FALSE, <<"Error creating temporary file: ", "io">>,
                                       NoFile, <<>>, StatusInternalServerError, encOk))
                /\ tmpfs' = tmpfs
           ELSE /\ tmpfs' = [n \in DOMAIN tmpfs \cup {name} |->
                                IF n = name THEN <<>> ELSE tmpfs[n]]
                /\ Goto(r, [me EXCEPT !.pc = "copy", !.tmp = name])
    /\ UNCHANGED <<phase, bucket, objects, now>>

\* io.Copy(tempFile, file) of the part named filename with content body; on
\* success the object name is derived from the clock, on failure the handler
\* answers and its deferred calls run.
UploadCopy(r, filename, body, okCopy, encOk) ==
    /\ req[r].kind = "upload" /\ req[r].pc = "copy"
    /\ LET me == [req[r] EXCEPT !.filename = filename, !.body = body]
       IN  IF okCopy
           THEN /\ tmpfs' = ioCopy(tmpfs, me.tmp, body)
                /\ Goto(r, [me EXCEPT !.pc = "put", !.key = ObjectName(now, filename)])
           ELSE /\ tmpfs' = osRemove(tmpfs, me.tmp)
                /\ Return(r, me,
                          sendResponse(FALSE, <<"Error saving temporary file: ", "io">>,
                                       NoFile, <<>>, StatusInternalServerError, encOk))
    /\ UNCHANGED <<phase, bucket, objects, now>>

\* minioService.uploadFile(objectName, tempFile.Name(), contentType)
UploadPut(r, okPut, encOk) ==
    /\ req[r].kind = "upload" /\ req[r].pc = "put"
    /\ LET up == uploadFile(objects, tmpfs, req[r].key, req[r].tmp, okPut)
           me == [req[r] EXCEPT !.err = up.err, !.calls =
                    IF up.err = "failed to open file" THEN {}
                    ELSE {Call("PutObject", 0)}]
       IN  IF up.err # "nil"
           THEN /\ objects' = objects
                /\ tmpfs' = osRemove(tmpfs, req[r].tmp)
                /\ Return(r, me,
                          sendResponse(FALSE, <<"Error uploading to MinIO: ", up.err>>,
                                       NoFile, <<>>, StatusInternalServerError, encOk))
           ELSE /\ objects' = up.objects
                /\ tmpfs' = tmpfs
                /\ Goto(r, [me EXCEPT !.pc = "sign", !.size = up.size])
    /\ UNCHANGED <<phase, bucket, now>>

\* A plausible slip: a link that cannot be signed fails the upload.
UploadFinishNeedsLink(r, okSign, encOk) ==
    /\ req[r].kind = "upload" /\ req[r].pc = "sign"
    /\ LET u == getObjectURL(req[r].key, Day, okSign)
           fileInfo == [fileName |-> req[r].filename, size |-> req[r].size,
                        url |-> u.url]
           me == [req[r] EXCEPT !.err = u.err,
                                !.calls = @ \cup {Call("PresignedGetObject", Day)}]
       IN  IF u.err # "nil"
           THEN Return(r, me, sendResponse(FALSE, <<"Error generating URL: ", u.err>>,
                              NoFile, <<>>, StatusInternalServerError, encOk))
           ELSE Return(r, me, sendResponse(TRUE, <<"File uploaded successfully">>,
                              fileInfo, <<>>, StatusOK, encOk))
    /\ tmpfs' = osRemove(tmpfs, req[r].tmp)
    /\ UNCHANGED <<phase, bucket, objects, now>>

\* getObjectURL(objectName, 24h), the success envelope, the deferred calls.
UploadFinish(r, okSign, encOk) ==
    /\ req[r].kind = "upload" /\ req[r].pc = "sign"
    /\ LET u == getObjectURL(req[r].key, Day, okSign)
           fileInfo == [fileName |-> req[r].filename, size |-> req[r].size,
                        url |-> u.url]
       IN  Return(r, [req[r] EXCEPT !.err = u.err,
                                   !.calls = @ \cup {Call("PresignedGetObject", Day)}],
                  sendResponse(TRUE, <<"File uploaded successfully">>, fileInfo,
                               <<>>, StatusOK, encOk))
    /\ tmpfs' = osRemove(tmpfs, req[r].tmp)
    /\ UNCHANGED <<phase, bucket, objects, now>>

\* --------------------------------------------------------- getFileHandler
\* A plausible slip: the retrieval link is signed for the upload duration.
deliverSignsForDay(objs, objectName, download, ok, encOk) ==
    IF download
    THEN LET d == downloadBuffer(objs, objectName, ok)
         IN  [resp |-> IF d.err # "nil"
                       THEN sendResponse(FALSE, <<"Error downloading file: ", d.err>>,
                                         NoFile, <<>>, StatusInternalServerError, encOk)
                       ELSE sendBytes(objectName, d.data),
              err |-> d.err, calls |-> {Call("GetObject", 0)}]
    ELSE LET u == getObjectURL(objectName, Day, ok)
         IN  [resp |-> IF u.err # "nil"
                       THEN sendResponse(FALSE, <<"Error generating URL: ", u.err>>,
                                         NoFile, <<>>, StatusInternalServerError, encOk)
                       ELSE sendRedirect(u.url),
              err |-> u.err, calls |-> {Call("PresignedGetObject", Day)}]

\* The part of getFileHandler after the existence probe: the attachment when
\* download is set, the redirect to a one-hour link otherwise.
deliver(objs, objectName, download, ok, encOk) ==
    IF download
    THEN LET d == downloadBuffer(objs, objectName, ok)
         IN  [resp |-> IF d.err # "nil"
                       THEN sendResponse(FALSE, <<"Error downloading file: ", d.err>>,
                                         NoFile, <<>>, StatusInternalServerError, encOk)
                       ELSE sendBytes(objectName, d.data),
              err |-> d.err, calls |-> {Call("GetObject", 0)}]
    ELSE LET u == getObjectURL(objectName, Hour, ok)
         IN  [resp |-> IF u.err # "nil"
                       THEN sendResponse(FALSE, <<"Error generating URL: ", u.err>>,
                                         NoFile, <<>>, StatusInternalServerError, encOk)
                       ELSE sendRedirect(u.url),
              err |-> u.err, calls |-> {Call("PresignedGetObject", Hour)}]

\* A GET: the key after "/files/", checkObjectExists.
GetFileProbe(r, objectName, okStat, encOk) ==
    /\ Free(r)
    /\ LET me == [Idle EXCEPT !.kind = "get", !.key = objectName]
           ex == checkObjectExists(objects, objectName, okStat)
           probed == [me EXCEPT !.calls = {Call("StatObject", 0)}, !.err = ex.err]
       IN  IF objectName = <<>>
           THEN Return(r, me, sendResponse(FALSE, <<"Object name is required">>,
                              NoFile, <<>>, StatusBadRequest, encOk))
           ELSE IF ex.err # "nil"
           THEN Return(r, probed,
                       sendResponse(FALSE, <<"Error checking object: ", ex.err>>,
                                    NoFile, <<>>, StatusInternalServerError, encOk))
           ELSE IF ~ex.exists
           THEN Return(r, probed, sendResponse(FALSE, <<"File not found">>, NoFile,
                              <<>>, StatusNotFound, encOk))
           ELSE Goto(r, [probed EXCEPT !.pc = "deliver"])
    /\ UNCHANGED <<phase, bucket, objects, tmpfs, now>>

\* The query parameter download is read, then the object is delivered.
GetFileDeliver(r, download, ok, encOk) ==
    /\ req[r].kind = "get" /\ req[r].pc = "deliver"
    /\ LET d == deliver(objects, req[r].key, download, ok, encOk)
       IN  Return(r, [req[r] EXCEPT !.download = download,
                                   !.calls = @ \cup d.calls, !.err = d.err], d.resp)
    /\ UNCHANGED <<phase, bucket, objects, tmpfs, now>>

\* ------------------------------------------------------- listFilesHandler
\* One FileInfo per listed object, each with a link signed for 24 hours; a
\* link that cannot be signed is left empty.
RECURSIVE fileList(_, _, _)
fileList(objs, i, okSign) ==
    IF i > Len(objs) THEN <<>>
    ELSE <<[fileName |-> Base(objs[i].Key), size |-> objs[i].Size,
            url |-> getObjectURL(objs[i].Key, Day, okSign).url]>>
             \o fileList(objs, i + 1, okSign)

\* A GET with the query parameter prefix.
ListFiles(r, prefixParam, okList, okSign, encOk) ==
    /\ Free(r)
    /\ LET prefix == IF prefixParam = <<>> THEN DefaultPrefix ELSE prefixParam
           l == listObjects(objects, prefix, okList)
           me == [Idle EXCEPT !.kind = "list", !.key = prefix, !.err = l.err,
                    !.calls = {Call("ListObjects", 0)} \cup
                        (IF l.err = "nil" /\ Len(l.objects) > 0
                         THEN {Call("PresignedGetObject", Day)} ELSE {})]
       IN  IF l.err # "nil"
           THEN Return(r, me,
                       sendResponse(FALSE, <<"Error listing files: ", l.err>>, NoFile,
                                    <<>>, StatusInternalServerError, encOk))
           ELSE Return(r, me,
                       sendResponse(TRUE, <<"Found files">>, NoFile,
                                    fileList(l.objects, 1, okSign), StatusOK, encOk))
    /\ UNCHANGED <<phase, bucket, objects, tmpfs, now>>

\* ------------------------------------------------------ healthCheckHandler
Health(r, okList, encOk) ==
    /\ Free(r)
    /\ LET l == listObjects(objects, <<>>, okList)
           me == [Idle EXCEPT !.kind = "health", !.err = l.err,
                              !.calls = {Call("ListObjects", 0)}]
       IN  IF l.err # "nil"
           THEN Return(r, me,
                       sendResponse(FALSE, <<"MinIO service is not healthy: ", l.err>>,
                                    NoFile, <<>>, StatusServiceUnavailable, encOk))
           ELSE Return(r, me, sendResponse(TRUE, <<"Service is healthy">>, NoFile,
                              <<>>, StatusOK, encOk))
    /\ UNCHANGED <<phase, bucket, objects, tmpfs, now>>

\* --------------------------------------------------------- specifications
\* The prefixes a list request is sent with.
ListPrefixes == {p \in Prefixes : Len(p) <= 2}

Next ==
    \/ \E a, b \in BOOLEAN : Main(a, b)
    \/ \E a, b \in BOOLEAN : EnsureBucketAgain(a, b)
    \/ \E k \in Keys, a \in BOOLEAN : Delete(k, a)
    \/ Tick
    \/ \E r \in Req, k \in {"upload", "list", "get"}, m \in Methods, e \in BOOLEAN :
          MethodNotAllowed(r, k, m, e)
    \/ \E r \in Req, h, a, e \in BOOLEAN : UploadStart(r, h, a, e)
    \/ \E r \in Req, f \in Filenames, d \in Payloads, a, e \in BOOLEAN :
          UploadCopy(r, f, d, a, e)
    \/ \E r \in Req, a, e \in BOOLEAN : UploadPut(r, a, e)
    \/ \E r \in Req, a, e \in BOOLEAN : UploadFinish(r, a, e)
    \/ \E r \in Req, k \in Keys \cup {<<>>}, a, e \in BOOLEAN : GetFileProbe(r, k, a, e)
    \/ \E r \in Req, d, a, e \in BOOLEAN : GetFileDeliver(r, d, a, e)
    \/ \E r \in Req, p \in ListPrefixes, a, b, e \in BOOLEAN : ListFiles(r, p, a, b, e)
    \/ \E r \in Req, a, e \in BOOLEAN : Health(r, a, e)

Spec == Init /\ [][Next]_vars

\* Uploads alone, handled concurrently, every backend call and every local
\* I/O call succeeding.
NextUploads ==
    \/ Main(TRUE, TRUE)
    \/ Tick
    \/ \E r \in Req : UploadStart(r, TRUE, TRUE, TRUE)
    \/ \E r \in Req, f \in Filenames, d \in Payloads : UploadCopy(r, f, d, TRUE, TRUE)
    \/ \E r \in Req : UploadPut(r, TRUE, TRUE)
    \/ \E r \in Req : UploadFinish(r, TRUE, TRUE)

SpecUploads == Init /\ [][NextUploads]_vars

\* ------------------------------------------------------------------ claims
Uploading(r) == req[r].kind = "upload" /\ req[r].pc \in {"copy", "put", "sign"}
StatCall == Call("StatObject", 0)
PutCall == Call("PutObject", 0)
GetCall == Call("GetObject", 0)
ListCall == Call("ListObjects", 0)
ListedKeys(l) == {l.objects[i].Key : i \in 1..Len(l.objects)}

\* The key an upload of filename at second t is to be stored under.
ExpectedKey(t, filename) ==
    IF t = 1 THEN <<"uploads/", "1", "-", filename>>
    ELSE IF t = 2 THEN <<"uploads/", "2", "-", filename>>
    ELSE IF t = 3 THEN <<"uploads/", "3", "-", filename>>
    ELSE <<>>

\* C1: an upload that is answered 200 has put its object: the put of every
\* upload about to call uploadFile stores, under uploads/<unix-time>-<filename>,
\* an object that checkObjectExists then reports present and downloadBuffer
\* returns with exactly the submitted bytes; a put or a delete of another key
\* leaves that object as it is.
C1_UploadThenExistsWithSameBytes ==
    /\ \A r \in Req : (req[r].kind = "upload" /\ req[r].pc = "put") =>
          LET up == uploadFile(objects, tmpfs, req[r].key, req[r].tmp, TRUE)
          IN  /\ \E t \in 1..now : req[r].key = ExpectedKey(t, req[r].filename)
              /\ up.err = "nil" /\ up.size = Len(req[r].body)
              /\ checkObjectExists(up.objects, req[r].key, TRUE)
                    = [exists |-> TRUE, err |-> "nil"]
              /\ downloadBuffer(up.objects, req[r].key, TRUE)
                    = [data |-> req[r].body, err |-> "nil"]
              /\ \A k \in Keys \ {req[r].key} :
                    /\ deleteObject(up.objects, k, TRUE).objects[req[r].key]
                          = [data |-> req[r].body]
                    /\ \A d \in Payloads :
                          PutObject(up.objects, k, d, Len(d), TRUE).objects[req[r].key]
                            = [data |-> req[r].body]
    /\ (out.kind = "upload" /\ out.resp.status = StatusOK) =>
          /\ PutCall \in out.calls
          /\ out.resp.success
          /\ out.resp.file.size = Len(out.body)
          /\ \E t \in 1..now : out.key = ExpectedKey(t, out.filename)

\* C1 witness: an upload of two bytes was answered 200 and its object holds them.
C1_Witness ==
    /\ out.kind = "upload" /\ out.resp.status = StatusOK
    /\ Len(out.body) = 2
    /\ out.key \in DOMAIN objects
    /\ downloadBuffer(objects, out.key, TRUE).data = out.body

\* C2: a retrieve request answered by the probe alone: for a key that is not
\* stored the probe returns false without error and the answer is 404 with
\* success = false; a probe that fails otherwise is answered 500, never 404,
\* and neither a fetch nor a signing is made.
C2_AbsentKeyIs404ProbeErrorIs500 ==
    /\ \A k \in Keys \ DOMAIN objects :
          checkObjectExists(objects, k, TRUE) = [exists |-> FALSE, err |-> "nil"]
    /\ \A k \in Keys : checkObjectExists(objects, k, FALSE).err # "nil"
    /\ (out.kind = "get" /\ out.calls = {StatCall}) =>
          /\ out.err = "nil" =>
                /\ out.key \notin DOMAIN objects
                /\ out.resp.status = StatusNotFound
                /\ ~out.resp.success
          /\ out.err # "nil" =>
                /\ out.resp.status = StatusInternalServerError
                /\ ~out.resp.success
    /\ (out.kind = "get" /\ out.resp.status = StatusNotFound) =>
          out.calls = {StatCall} /\ out.err = "nil"

\* C2 witness: a key that is not stored, beside one that is, was answered 404.
C2_Witness ==
    /\ out.kind = "get" /\ out.key \in Keys \ DOMAIN objects
    /\ objects # <<>>
    /\ out.resp.status = StatusNotFound /\ ~out.resp.success

\* C3: in every state puts and deletes lead to, listObjects(prefix) on a
\* backend that answers returns, without error, exactly the stored objects
\* whose key starts with prefix, each once, for every prefix, the empty one
\* included; the list handler answers 200 with one entry per such object,
\* also when there is none.
C3_ListIsExactlyThePrefixMatches ==
    /\ \A p \in Prefixes :
          LET l == listObjects(objects, p, TRUE)
              match == {k \in DOMAIN objects : IsPrefix(p, k)}
          IN  /\ l.err = "nil"
              /\ ListedKeys(l) = match
              /\ Len(l.objects) = Cardinality(match)
              /\ \A i \in 1..Len(l.objects) :
                    l.objects[i].Size = Len(objects[l.objects[i].Key].data)
    /\ (out.kind = "list" /\ out.err = "nil" /\ out.calls # {}) =>
          /\ out.resp.status = StatusOK /\ out.resp.success
          /\ Len(out.resp.files)
                = Cardinality({k \in DOMAIN objects : IsPrefix(out.key, k)})

\* C3 witness: a listing answered with one of the two stored objects.
C3_Witness ==
    /\ out.kind = "list" /\ out.resp.status = StatusOK
    /\ Cardinality(DOMAIN objects) = 2
    /\ Len(out.resp.files) = 1
    /\ out.resp.files[1].url = [key |-> <<"uploads/", "1", "-", "a.txt">>, expiry |-> Day]

\* C4: deleteObject(key) on a backend that answers returns no error and
\* leaves exactly the other objects, so that no listing under a prefix of key
\* holds key; for a key that is not stored it changes nothing, and deleting
\* again changes nothing more. A delete that returned success leaves key
\* out of every such listing.
C4_DeleteRemovesAndIsIdempotent ==
    /\ \A k \in Keys :
          LET d == deleteObject(objects, k, TRUE)
          IN  /\ d.err = "nil"
              /\ DOMAIN d.objects = DOMAIN objects \ {k}
              /\ \A j \in DOMAIN d.objects : d.objects[j] = objects[j]
              /\ \A p \in PrefixesOf(k) :
                    k \notin ListedKeys(listObjects(d.objects, p, TRUE))
              /\ k \notin DOMAIN objects => d.objects = objects
              /\ deleteObject(d.objects, k, TRUE) = [objects |-> d.objects, err |-> "nil"]
    /\ (out.kind = "deleteObject" /\ out.err = "nil") =>
          \A p \in PrefixesOf(out.key) :
              out.key \notin ListedKeys(listObjects(objects, p, TRUE))

\* C4 witness: a delete returned success and another object is still stored.
C4_Witness ==
    /\ out.kind = "deleteObject" /\ out.err = "nil"
    /\ out.key \notin DOMAIN objects
    /\ objects # <<>>

\* C5: uploads handled concurrently, every call succeeding: each upload that
\* returns was answered 200 with success = true; the put of each stores its
\* own bytes under its own key and leaves every other key as it was; no other
\* step changes an object. With pairwise distinct keys, therefore, every key
\* holds the bytes of its own request once all have returned.
C5_Step ==
    /\ \A r \in Req : (Uploading(r) /\ req'[r].pc = "idle") =>
          /\ out'.kind = "upload" /\ out'.key = req[r].key /\ out'.body = req[r].body
          /\ out'.resp.status = StatusOK /\ out'.resp.success
          /\ out'.resp.body = "envelope"
    /\ \A r \in Req : (req[r].pc = "put" /\ req'[r].pc # "put") =>
          /\ req'[r].pc = "sign"
          /\ DOMAIN objects' = DOMAIN objects \cup {req[r].key}
          /\ objects'[req[r].key] = [data |-> req[r].body]
          /\ \A k \in DOMAIN objects \ {req[r].key} : objects'[k] = objects[k]
    /\ (\A r \in Req : ~(req[r].pc = "put" /\ req'[r].pc # "put")) => objects' = objects

C5_ConcurrentUploadsKeepTheirOwnBytes == [][C5_Step]_vars

\* C5 witness: two uploads in flight at once, of different bytes under
\* different keys, have both put, and each key holds its own bytes.
C5_Witness ==
    /\ req[1].pc = "sign" /\ req[2].pc = "sign"
    /\ req[1].key # req[2].key /\ req[1].body # req[2].body
    /\ objects[req[1].key] = [data |-> req[1].body]
    /\ objects[req[2].key] = [data |-> req[2].body]

\* C6: the step that ends an upload after its put answers 200 with
\* success = true and the file's name and size, with the 24-hour link when
\* the signing succeeded and with no link when it failed, and leaves the
\* stored objects as they are; an upload answered as a failure was answered
\* by a step up to and including the put.
PresignDay == Call("PresignedGetObject", Day)
C6_Step ==
    /\ \A r \in Req :
          (req[r].kind = "upload" /\ req[r].pc = "sign" /\ req'[r].pc = "idle") =>
            /\ out'.kind = "upload" /\ out'.resp.status = StatusOK
            /\ out'.resp.success
            /\ out'.resp.file.fileName = req[r].filename
            /\ out'.resp.file.size = Len(req[r].body)
            /\ out'.err # "nil" => out'.resp.file.url = NoURL
            /\ out'.err = "nil" =>
                  out'.resp.file.url = [key |-> req[r].key, expiry |-> Day]
            /\ objects' = objects
    /\ (out'.kind = "upload" /\ out' # out /\ ~out'.resp.success) =>
          /\ \A r \in Req : ~(req[r].pc = "sign" /\ req'[r].pc = "idle")
          /\ PresignDay \notin out'.calls
          /\ out'.resp.status \in {StatusBadRequest, StatusMethodNotAllowed,
                                    StatusInternalServerError}

C6_UploadSucceedsWithoutLink == [][C6_Step]_vars

\* C6 witness: an upload was answered 200 without a link, the signing having
\* failed, and its object is stored.
C6_Witness ==
    /\ out.kind = "upload" /\ out.resp.status = StatusOK /\ out.resp.success
    /\ out.err = "failed to generate presigned URL"
    /\ out.resp.file.url = NoURL
    /\ out.key \in DOMAIN objects /\ objects[out.key].data = out.body

\* C7: a retrieve request that passed the probe makes one more call: with
\* download set the fetch and no signing, and when the fetch succeeds the
\* answer is 200 with exactly the stored bytes and their count as length;
\* without it the signing for one hour and no fetch, and when the signing
\* succeeds the answer is a 302 to that link; a failed fetch or signing is
\* answered 500. Uploads and listings sign for 24 hours and nothing else.
C7_DownloadOrRedirect ==
    /\ (out.kind = "get" /\ out.calls \notin {{}, {StatCall}}) =>
          IF out.download
          THEN /\ out.calls = {StatCall, GetCall}
               /\ out.resp.location = NoURL
               /\ out.err = "nil" =>
                     /\ out.resp.status = StatusOK
                     /\ out.resp.body = "bytes"
                     /\ out.resp.contentType = "application/octet-stream"
                     /\ out.resp.bytes = objects[out.key].data
                     /\ out.resp.contentLength = Len(objects[out.key].data)
               /\ out.err # "nil" => out.resp.status = StatusInternalServerError
          ELSE /\ out.calls = {StatCall, Call("PresignedGetObject", Hour)}
               /\ out.resp.bytes = <<>>
               /\ out.err = "nil" =>
                     /\ out.resp.status = StatusFound
                     /\ out.resp.location = [key |-> out.key, expiry |-> Hour]
               /\ out.err # "nil" => out.resp.status = StatusInternalServerError
    /\ out.kind \in {"upload", "list"} =>
          /\ \A c \in out.calls : c.op = "PresignedGetObject" => c.expiry = Day
          /\ out.resp.file.url.expiry \in {0, Day}
          /\ \A i \in 1..Len(out.resp.files) : out.resp.files[i].url.expiry \in {0, Day}
    /\ out.kind = "get" =>
          \A c \in out.calls : c.op = "PresignedGetObject" => c.expiry = Hour

\* C7 witness: a download was answered 200 with the two bytes stored.
C7_Witness ==
    /\ out.kind = "get" /\ out.download
    /\ out.resp.status = StatusOK /\ out.resp.contentLength = 2
    /\ out.resp.bytes = objects[out.key].data

\* C8: the temporary files that exist are those of the uploads in flight,
\* one each, holding what its upload copied into it; the file of a handler
\* that has returned, on whichever path, does not exist.
C8_TempFileGoneOnEveryExit ==
    /\ DOMAIN tmpfs = {req[r].tmp : r \in {q \in Req : Uploading(q)}}
    /\ \A r, q \in Req : (Uploading(r) /\ Uploading(q) /\ r # q) =>
          req[r].tmp # req[q].tmp
    /\ \A r \in Req : (Uploading(r) /\ req[r].pc \in {"put", "sign"}) =>
          tmpfs[req[r].tmp] = req[r].body
    /\ (out.kind = "upload" /\ out.tmp # 0) =>
          \/ out.tmp \notin DOMAIN tmpfs
          \/ \E r \in Req : Uploading(r) /\ req[r].tmp = out.tmp

\* C8 witness: an upload returned because its copy failed, its file is gone,
\* and the file of another upload in flight is intact.
C8_Witness ==
    /\ out.kind = "upload" /\ out.tmp # 0
    /\ out.resp.message = <<"Error saving temporary file: ", "io">>
    /\ out.tmp \notin DOMAIN tmpfs
    /\ \E r \in Req : /\ Uploading(r) /\ req[r].pc = "put"
                       /\ tmpfs[req[r].tmp] = req[r].body

\* C9: an answer whose envelope could not be encoded reaches the client as
\* plain text with status 500, whatever status the handler asked for.
C9_EncodeFailureIsPlainText500 ==
    out.resp.body = "Error encoding response" =>
        /\ out.resp.status = StatusInternalServerError
        /\ out.resp.contentType = "text/plain; charset=utf-8"

\* C10: ensureBucket on an existing bucket makes no create call, returns
\* success and changes nothing; on an absent one it creates it in the
\* configured region; a failed existence check returns an error without a
\* create call, a failed creation returns an error; after a successful
\* return the bucket exists; and requests are served only once main() got a
\* successful return, a failed one ending the process.
BucketExistsCall == Call("BucketExists", 0)
C10_EnsureBucket ==
    /\ \A a \in BOOLEAN :
          /\ ensureBucket(bucket, FALSE, a)
                = [bucket |-> bucket, err |-> "failed to check if bucket exists",
                   calls |-> {BucketExistsCall}]
          /\ bucket # NoBucket =>
                ensureBucket(bucket, TRUE, a)
                  = [bucket |-> bucket, err |-> "nil", calls |-> {BucketExistsCall}]
    /\ bucket = NoBucket =>
          /\ ensureBucket(bucket, TRUE, TRUE)
                = [bucket |-> Location, err |-> "nil",
                   calls |-> {BucketExistsCall, CallMake(Location)}]
          /\ ensureBucket(bucket, TRUE, FALSE)
                = [bucket |-> NoBucket, err |-> "failed to create bucket",
                   calls |-> {BucketExistsCall, CallMake(Location)}]
    /\ (out.kind = "ensureBucket" /\ out.err = "nil") => bucket # NoBucket
    /\ phase = "serving" => bucket # NoBucket
    /\ out.kind = "ensureBucket" =>
          /\ out.err = "nil" => phase = "serving"
          /\ out.err # "nil" => phase \in {"fatal", "serving"}
          /\ CallMake(Location) \in out.calls =>
                bucket = IF out.err = "nil" THEN Location ELSE NoBucket
    /\ phase # "serving" =>
          /\ \A r \in Req : req[r] = Idle
          /\ out.kind \in {"none", "ensureBucket"}
          /\ objects = <<>>

\* C10 witness: main() created the absent bucket in the configured region and
\* the handlers are served.
C10_Witness ==
    /\ phase = "serving"
    /\ out.kind = "ensureBucket" /\ out.err = "nil"
    /\ CallMake(Location) \in out.calls
    /\ bucket = Location

\* C11: the key an upload derives is uploads/<the second of the derivation>-
\* <its filename>, so it is the key of every upload of the same filename that
\* derived its key in that second; the put of an upload leaves exactly one
\* object at its key, holding its own bytes, whatever an earlier upload had
\* stored there, and leaves the other keys alone; and every upload that has
\* put is answered 200 with success = true, the first of two colliding ones
\* as well as the second.
C11_Step ==
    /\ \A r \in Req : (req[r].pc = "copy" /\ req'[r].pc = "put") =>
          /\ req'[r].key = ExpectedKey(now, req'[r].filename)
          /\ \A q \in Req \ {r} :
                (/\ Uploading(q) /\ req[q].pc \in {"put", "sign"}
                 /\ req[q].filename = req'[r].filename
                 /\ req[q].key = ExpectedKey(now, req[q].filename))
                => req'[r].key = req[q].key
    /\ \A r \in Req : (req[r].pc = "put" /\ req'[r].pc = "sign") =>
          objects' = [k \in DOMAIN objects \cup {req[r].key} |->
                        IF k = req[r].key THEN [data |-> req[r].body]
                        ELSE objects[k]]
    /\ \A r \in Req :
          (req[r].kind = "upload" /\ req[r].pc = "sign" /\ req'[r].pc = "idle") =>
            /\ out'.kind = "upload" /\ out'.key = req[r].key
            /\ out'.resp.status = StatusOK /\ out'.resp.success
            /\ objects' = objects

C11_SameSecondSameNameOverwrites == [][C11_Step]_vars

\* C11 witness: two uploads of the same filename derived the same key; the
\* first was answered 200, the second is about to be, and the one object at
\* the key holds the bytes of the second, not those of the first.
C11_Witness ==
    /\ out.kind = "upload" /\ out.resp.status = StatusOK /\ out.resp.success
    /\ out.key \in DOMAIN objects
    /\ objects[out.key].data # out.body
    /\ \E q \in Req : /\ Uploading(q) /\ req[q].pc = "sign"
                       /\ req[q].key = out.key /\ req[q].filename = out.filename
                       /\ req[q].body # out.body
                       /\ objects[out.key].data = req[q].body
    /\ Cardinality({k \in DOMAIN objects : k = out.key}) = 1

====
